---- MODULE Spec2Model ----
(***************************************************************************)
(* NMEATracker (NMEASentenceTrackerandMapper.py): a serial Frame Reader    *)
(* thread, a Fix Extractor thread, the track/map store and the controller  *)
(* that starts and stops them.                                             *)
(***************************************************************************)
EXTENDS Integers, Sequences, FiniteSets, TLC

\* ------------------------------------------------------------------ bounds
MaxReads == 3       \* readline() calls (data or fault) over a run
MaxReadsAny == 2    \* the same, in a free run
MaxReadsFair == 2   \* the same, in a fairly scheduled run
MaxStarts == 2      \* worker generations the thread tables have room for
MaxCalls == 3       \* calls of start_tracking and stop_tracking in a free run

\* ------------------------------------------------------------------ text
\* Text is a sequence of one-character strings; bytes are the same characters
\* plus "XFF", a byte that is not valid UTF-8.  "CR" and "LF" are the line
\* terminators, "SP" a blank.
Whitespace == {"CR", "LF", "SP"}
LineBreaks == {"CR", "LF"}

GNGGA == <<"$", "G", "N", "G", "G", "A">>
GNRMC == <<"$", "G", "N", "R", "M", "C">>
GPGLL == <<"$", "G", "P", "G", "L", "L">>

\* the sentences the modelled device emits
SentGGA == GNGGA \o <<",", "1">>      \* position-and-fix sentence, valid
SentRMC == GNRMC \o <<",", "2">>      \* position-and-time sentence, valid
SentBad == GNGGA \o <<",", "*">>      \* recognized marker, fails to decode
SentNoPos == GNRMC \o <<",", "-">>    \* decodes, exposes no coordinates
SentGLL == GPGLL \o <<",", "1">>      \* unsupported sentence type

\* what one readline() can return (timeout = 1): a terminated line, a line
\* holding inner carriage returns, a fragment cut by the timeout, noise
Chunks ==
  { SentGGA \o <<"CR", "LF">>,
    SentRMC \o <<"CR", "LF">>,
    SentBad \o <<"CR", "LF">>,
    SentNoPos \o <<"LF">>,
    SentGLL \o <<"CR", "LF">>,
    SentGGA \o <<"CR">> \o SentRMC \o <<"CR", "LF">>,
    <<"$", "G", "N", "G">>,
    <<"XFF", "$", "LF">> }

\* bytes.decode('utf-8'): fails on an invalid byte
Utf8Ok(bytes) == \A i \in 1..Len(bytes) : bytes[i] # "XFF"

RECURSIVE LStrip(_)
LStrip(s) == IF s # <<>> /\ Head(s) \in Whitespace THEN LStrip(Tail(s)) ELSE s

RECURSIVE RStrip(_)
RStrip(s) ==
  IF s # <<>> /\ s[Len(s)] \in Whitespace THEN RStrip(SubSeq(s, 1, Len(s) - 1)) ELSE s

\* str.strip()
Strip(s) == RStrip(LStrip(s))

\* str.splitlines(): break at CR, LF or CR LF; no empty last line
RECURSIVE SplitFrom(_, _, _)
SplitFrom(s, cur, acc) ==
  IF s = <<>> THEN (IF cur = <<>> THEN acc ELSE Append(acc, cur))
  ELSE IF Head(s) = "CR" /\ Len(s) >= 2 /\ s[2] = "LF"
       THEN SplitFrom(Tail(Tail(s)), <<>>, Append(acc, cur))
  ELSE IF Head(s) \in LineBreaks
       THEN SplitFrom(Tail(s), <<>>, Append(acc, cur))
  ELSE SplitFrom(Tail(s), Append(cur, Head(s)), acc)

SplitLines(s) == SplitFrom(s, <<>>, <<>>)

\* str.startswith(prefix)
StartsWith(s, prefix) ==
  Len(s) >= Len(prefix) /\ SubSeq(s, 1, Len(prefix)) = prefix

\* ------------------------------------------------------------------ decoder
\* pynmea2.parse as seen through lines 131-145: either it raises ParseError
\* (ok = FALSE) or it returns a sentence object exposing some attributes.
Decode(text) ==
  IF Len(text) >= 8 /\ text[7] = "," /\ text[8] = "1"
    THEN [ok |-> TRUE, attrs |-> {"latitude", "longitude", "timestamp"},
          latitude |-> 35, longitude |-> 139, timestamp |-> "t1", datetime |-> "none"]
  ELSE IF Len(text) >= 8 /\ text[7] = "," /\ text[8] = "2"
    THEN [ok |-> TRUE, attrs |-> {"latitude", "longitude", "timestamp", "datetime"},
          latitude |-> 36, longitude |-> 140, timestamp |-> "t2", datetime |-> "d2"]
  ELSE IF Len(text) >= 8 /\ text[7] = "," /\ text[8] = "-"
    THEN [ok |-> TRUE, attrs |-> {"timestamp"},
          latitude |-> 0, longitude |-> 0, timestamp |-> "t3", datetime |-> "none"]
  ELSE [ok |-> FALSE, attrs |-> {},
        latitude |-> 0, longitude |-> 0, timestamp |-> "none", datetime |-> "none"]

\* ------------------------------------------------------------------ state
VARIABLES
  serial_port,        \* "None", "open" or "closed"
  is_running,
  receive_thread,     \* 0 (None) or the worker generation it refers to
  processing_thread,
  data_queue,         \* FIFO of [text, id]; id numbers the puts
  track_points,
  map,                \* folium.Map: markers, polylines, location
  saved,              \* the documents written by map.save, in order
  rpc,                \* Frame Reader threads: "unborn", "loop", "body", "done"
  ppc,                \* Fix Extractor threads: "unborn", "loop", "get", "parse", "done"
  cur,                \* the frame each Fix Extractor holds between get and parse
  cpc,                \* the controlling thread: "idle" or a step of stop_tracking
  script,             \* the calls the controlling thread still makes
  nstarted,           \* worker generations started so far
  nput,               \* frames put on the queue so far
  readLog,            \* history: what every read attempt returned
  parseLog,           \* history: the frames handed to _parse_nmea
  trackSrc,           \* history: for every track point, the id of its frame
  stopLog,            \* history: the steps of the current stop_tracking call
  startLog,           \* history: what every start_tracking call did
  device              \* the reads the serial device still answers with data or a fault

vars == <<serial_port, is_running, receive_thread, processing_thread, data_queue,
          track_points, map, saved, rpc, ppc, cur, cpc, script, nstarted, nput,
          readLog, parseLog, trackSrc, stopLog, startLog, device>>

Gens == 1..MaxStarts
NoFrame == [text |-> <<>>, id |-> 0]

\* main(): start_tracking(), sleep, stop_tracking()
MainScript == <<"start", "stop">>

\* __init__
Init ==
  /\ serial_port = "None"
  /\ is_running = FALSE
  /\ receive_thread = 0
  /\ processing_thread = 0
  /\ data_queue = <<>>
  /\ track_points = <<>>
  /\ map = [markers |-> <<>>, polylines |-> <<>>, location |-> <<0, 0>>]
  /\ saved = <<>>
  /\ rpc = [w \in Gens |-> "unborn"]
  /\ ppc = [w \in Gens |-> "unborn"]
  /\ cur = [w \in Gens |-> NoFrame]
  /\ cpc = "idle"
  /\ script = MainScript
  /\ nstarted = 0
  /\ nput = 0
  /\ readLog = <<>>
  /\ parseLog = <<>>
  /\ trackSrc = <<>>
  /\ stopLog = <<>>
  /\ startLog = <<>>
  /\ device = MaxReads

\* ------------------------------------------------------------------ track store
Coord(p) == <<p.latitude, p.longitude>>

\* _update_map: add a marker; with two or more track points add a PolyLine over
\* all of them.  add_to adds a child to the map and removes none.
UpdateMap(m, track, track_point) ==
  LET withMarker ==
        [m EXCEPT !.markers =
           Append(@, [location |-> Coord(track_point), popup |-> track_point.timestamp])]
  IN  IF Len(track) > 1
        THEN [withMarker EXCEPT !.polylines =
                Append(@, [i \in 1..Len(track) |-> Coord(track[i])])]
        ELSE withMarker

\* no marker test at all
RecognizedAll(text) == TRUE

\* a marker test that looks at the leading "$G" only
RecognizedLoose(text) == StartsWith(text, <<"$", "G">>)

\* the marker test of line 129
Recognized(text) == StartsWith(text, GNGGA) \/ StartsWith(text, GNRMC)

\* no attribute test at all
HasPositionAlways(parsed) == TRUE

\* the attribute test of line 134
HasPosition(parsed) == "latitude" \in parsed.attrs /\ "longitude" \in parsed.attrs

\* lines 140-145
Timestamp(parsed) ==
  IF "timestamp" \in parsed.attrs THEN parsed.timestamp
  ELSE IF "datetime" \in parsed.attrs THEN parsed.datetime
  ELSE "now"

\* an append that skips a point the list already holds
TrackAppendDedup(track, track_point) ==
  IF \E i \in 1..Len(track) : track[i] = track_point
    THEN track ELSE Append(track, track_point)

\* an insert at the front of the list
TrackPrepend(track, track_point) == <<track_point>> \o track

\* list.append of line 153
TrackAppend(track, track_point) == Append(track, track_point)

\* a _parse_nmea that stores a point for every recognized frame, decoded or not
ParseNmeaKeepsBad(text, track, m) ==
  LET parsed == Decode(text)
      point == [latitude |-> parsed.latitude, longitude |-> parsed.longitude,
                timestamp |-> Timestamp(parsed)]
      track2 == Append(track, point)
  IN  IF Recognized(text)
        THEN [track |-> track2, map |-> UpdateMap(m, track2, point), appended |-> TRUE,
              decoded |-> Recognized(text)]
        ELSE [track |-> track, map |-> m, appended |-> FALSE,
              decoded |-> Recognized(text)]

\* _parse_nmea: the track and the map after the call, whether a point was
\* appended and whether pynmea2.parse was called.  ParseError, and the unbound track_point of line 160, are caught
\* and leave both as they were.
ParseNmea(text, track, m) ==
  LET parsed == Decode(text)
      point == [latitude |-> parsed.latitude, longitude |-> parsed.longitude,
                timestamp |-> Timestamp(parsed)]
      track2 == TrackAppend(track, point)
  IN  IF Recognized(text) /\ parsed.ok /\ HasPosition(parsed)
        THEN [track |-> track2, map |-> UpdateMap(m, track2, point), appended |-> TRUE,
              decoded |-> Recognized(text)]
        ELSE [track |-> track, map |-> m, appended |-> FALSE,
              decoded |-> Recognized(text)]

\* a _save_map that also draws the path once more
SaveMapRedraws(track, m, docs) ==
  IF track # <<>>
    THEN LET centred == [m EXCEPT !.location = Coord(track[Len(track)]),
                                  !.polylines = Append(@, [i \in 1..Len(track) |-> Coord(track[i])])]
         IN  [map |-> centred, saved |-> Append(docs, centred)]
    ELSE [map |-> m, saved |-> docs]

\* a _save_map that centres on the first point of the track
SaveMapFirst(track, m, docs) ==
  IF track # <<>>
    THEN LET centred == [m EXCEPT !.location = Coord(track[1])]
         IN  [map |-> centred, saved |-> Append(docs, centred)]
    ELSE [map |-> m, saved |-> docs]

\* _save_map: the map and the saved documents after the call
SaveMap(track, m, docs) ==
  IF track # <<>>
    THEN LET centred == [m EXCEPT !.location = Coord(track[Len(track)])]
         IN  [map |-> centred, saved |-> Append(docs, centred)]
    ELSE [map |-> m, saved |-> docs]

\* ------------------------------------------------------------------ Frame Reader
\* the for loop of lines 91-93: its first pass rebinds nmea_sentence to the
\* first line, so every later pass takes element 0 of that string
ForLoopPuts(lines) ==
  [i \in 1..Len(lines) |-> IF i = 1 THEN lines[1] ELSE <<lines[1][1]>>]

\* lines 88-93 on the bytes readline() returned: the texts put on the queue and
\* whether an exception left the try block
ReceiveBody(bytes) ==
  IF Utf8Ok(bytes)
    THEN [puts |-> ForLoopPuts(SplitLines(Strip(bytes))), raised |-> FALSE]
    ELSE [puts |-> <<>>, raised |-> TRUE]

\* a try statement that ends with is_running = (no exception)
AfterExceptSets(raised, running) == ~raised

\* an except clause that only prints
AfterExceptKeeps(raised, running) == running

\* lines 94-96: is_running after the try statement
AfterExcept(raised, running) == IF raised THEN FALSE ELSE running

Enqueue(q, texts, base) ==
  q \o [i \in 1..Len(texts) |-> [text |-> texts[i], id |-> base + i]]

\* while self.is_running (line 84)
ReaderLoop(w) ==
  /\ rpc[w] = "loop"
  /\ rpc' = [rpc EXCEPT ![w] = IF is_running THEN "body" ELSE "done"]
  /\ UNCHANGED <<device, serial_port, is_running, receive_thread, processing_thread,
                 data_queue, track_points, map, saved, ppc, cur, cpc, script,
                 nstarted, nput, readLog, parseLog, trackSrc, stopLog, startLog>>

\* in_waiting is 0: nothing is read
ReaderIdle(w) ==
  /\ rpc[w] = "body"
  /\ serial_port = "open"
  /\ rpc' = [rpc EXCEPT ![w] = "loop"]
  /\ UNCHANGED <<device, serial_port, is_running, receive_thread, processing_thread,
                 data_queue, track_points, map, saved, ppc, cur, cpc, script,
                 nstarted, nput, readLog, parseLog, trackSrc, stopLog, startLog>>

\* bytes are waiting: readline, decode, strip, splitlines, put
ReaderRead(w) ==
  /\ rpc[w] = "body"
  /\ serial_port = "open"
  /\ device > 0
  /\ device' = device - 1
  /\ \E bytes \in Chunks :
       LET r == ReceiveBody(bytes) IN
       /\ data_queue' = Enqueue(data_queue, r.puts, nput)
       /\ nput' = nput + Len(r.puts)
       /\ is_running' = AfterExcept(r.raised, is_running)
       /\ readLog' = Append(readLog, [kind |-> "data", bytes |-> bytes, by |-> w])
  /\ rpc' = [rpc EXCEPT ![w] = "loop"]
  /\ UNCHANGED <<serial_port, receive_thread, processing_thread, track_points,
                 map, saved, ppc, cur, cpc, script, nstarted, parseLog, trackSrc,
                 stopLog, startLog>>

\* in_waiting or readline raises: the device is gone, or the port is closed
ReaderFault(w) ==
  /\ rpc[w] = "body"
  /\ IF serial_port = "closed"
       THEN device' = device
       ELSE serial_port = "open" /\ device > 0 /\ device' = device - 1
  /\ is_running' = AfterExcept(TRUE, is_running)
  /\ readLog' = Append(readLog, [kind |-> "fault", bytes |-> <<>>, by |-> w])
  /\ rpc' = [rpc EXCEPT ![w] = "loop"]
  /\ UNCHANGED <<serial_port, receive_thread, processing_thread, data_queue,
                 track_points, map, saved, ppc, cur, cpc, script, nstarted, nput,
                 parseLog, trackSrc, stopLog, startLog>>

\* ------------------------------------------------------------------ Fix Extractor
\* while self.is_running (line 100)
ProcLoop(w) ==
  /\ ppc[w] = "loop"
  /\ ppc' = [ppc EXCEPT ![w] = IF is_running THEN "get" ELSE "done"]
  /\ UNCHANGED <<device, serial_port, is_running, receive_thread, processing_thread,
                 data_queue, track_points, map, saved, rpc, cur, cpc, script,
                 nstarted, nput, readLog, parseLog, trackSrc, stopLog, startLog>>

\* a get that takes the newest frame
ProcGetNewest(w) ==
  /\ ppc[w] = "get"
  /\ data_queue # <<>>
  /\ cur' = [cur EXCEPT ![w] = data_queue[Len(data_queue)]]
  /\ data_queue' = SubSeq(data_queue, 1, Len(data_queue) - 1)
  /\ ppc' = [ppc EXCEPT ![w] = "parse"]
  /\ UNCHANGED <<device, serial_port, is_running, receive_thread, processing_thread,
                 track_points, map, saved, rpc, cpc, script, nstarted, nput,
                 readLog, parseLog, trackSrc, stopLog, startLog>>

\* data_queue.get(timeout=1) returns a frame
ProcGet(w) ==
  /\ ppc[w] = "get"
  /\ data_queue # <<>>
  /\ cur' = [cur EXCEPT ![w] = Head(data_queue)]
  /\ data_queue' = Tail(data_queue)
  /\ ppc' = [ppc EXCEPT ![w] = "parse"]
  /\ UNCHANGED <<device, serial_port, is_running, receive_thread, processing_thread,
                 track_points, map, saved, rpc, cpc, script, nstarted, nput,
                 readLog, parseLog, trackSrc, stopLog, startLog>>

\* a data_queue.get() without timeout: on an empty queue it never returns
ProcEmptyBlocks(w) == ppc[w] = "get" /\ FALSE /\ UNCHANGED vars

\* data_queue.get(timeout=1) raises queue.Empty; sleep and loop
ProcEmpty(w) ==
  /\ ppc[w] = "get"
  /\ data_queue = <<>>
  /\ ppc' = [ppc EXCEPT ![w] = "loop"]
  /\ UNCHANGED <<device, serial_port, is_running, receive_thread, processing_thread,
                 data_queue, track_points, map, saved, rpc, cur, cpc, script,
                 nstarted, nput, readLog, parseLog, trackSrc, stopLog, startLog>>

\* _parse_nmea(nmea_sentence), task_done()
ProcParse(w) ==
  /\ ppc[w] = "parse"
  /\ LET r == ParseNmea(cur[w].text, track_points, map) IN
       /\ track_points' = r.track
       /\ map' = r.map
       /\ trackSrc' = IF r.appended THEN Append(trackSrc, cur[w].id) ELSE trackSrc
       /\ parseLog' = Append(parseLog,
            [text |-> cur[w].text, id |-> cur[w].id, decoded |-> r.decoded])
  /\ cur' = [cur EXCEPT ![w] = NoFrame]
  /\ ppc' = [ppc EXCEPT ![w] = "loop"]
  /\ UNCHANGED <<device, serial_port, is_running, receive_thread, processing_thread,
                 data_queue, saved, rpc, cpc, script, nstarted, nput, readLog,
                 stopLog, startLog>>

\* ------------------------------------------------------------------ controller
\* start_tracking when connect() fails: SerialException is caught in connect,
\* which prints and returns False; start_tracking then returns (None)
StartOpenFails ==
  /\ cpc = "idle"
  /\ script # <<>> /\ Head(script) = "start"
  /\ serial_port = "None"
  /\ script' = Tail(script)
  /\ startLog' = Append(startLog,
       [opened |-> FALSE, value |-> "None", raised |-> FALSE, spawned |-> 0])
  /\ UNCHANGED <<device, serial_port, is_running, receive_thread, processing_thread,
                 data_queue, track_points, map, saved, rpc, ppc, cur, cpc,
                 nstarted, nput, readLog, parseLog, trackSrc, stopLog>>

\* start_tracking with a port object at hand (just opened, or kept from before)
StartOk ==
  /\ cpc = "idle"
  /\ script # <<>> /\ Head(script) = "start"
  /\ nstarted < MaxStarts
  /\ script' = Tail(script)
  /\ serial_port' = IF serial_port = "None" THEN "open" ELSE serial_port
  /\ is_running' = TRUE
  /\ nstarted' = nstarted + 1
  /\ receive_thread' = nstarted + 1
  /\ processing_thread' = nstarted + 1
  /\ rpc' = [rpc EXCEPT ![nstarted + 1] = "loop"]
  /\ ppc' = [ppc EXCEPT ![nstarted + 1] = "loop"]
  /\ startLog' = Append(startLog,
       [opened |-> TRUE, value |-> "None", raised |-> FALSE, spawned |-> nstarted + 1])
  /\ UNCHANGED <<device, data_queue, track_points, map, saved, cur, cpc, nput, readLog,
                 parseLog, trackSrc, stopLog>>

\* a join that does not wait
JoinedNoWait(t, pcs) == TRUE

\* Thread.join on a handle: returns at once for None, else once the thread ended
Joined(t, pcs) == IF t = 0 THEN TRUE ELSE pcs[t] = "done"

\* stop_tracking, line 68
StopBegin ==
  /\ cpc = "idle"
  /\ script # <<>> /\ Head(script) = "stop"
  /\ script' = Tail(script)
  /\ is_running' = FALSE
  /\ cpc' = "stop_join_r"
  /\ stopLog' = <<"set">>
  /\ UNCHANGED <<device, serial_port, receive_thread, processing_thread, data_queue,
                 track_points, map, saved, rpc, ppc, cur, nstarted, nput,
                 readLog, parseLog, trackSrc, startLog>>

\* lines 70-71
StopJoinReader ==
  /\ cpc = "stop_join_r"
  /\ Joined(receive_thread, rpc)
  /\ cpc' = "stop_join_p"
  /\ stopLog' = Append(stopLog, "join_r")
  /\ UNCHANGED <<device, serial_port, is_running, receive_thread, processing_thread,
                 data_queue, track_points, map, saved, rpc, ppc, cur, script,
                 nstarted, nput, readLog, parseLog, trackSrc, startLog>>

\* lines 72-73
StopJoinProc ==
  /\ cpc = "stop_join_p"
  /\ Joined(processing_thread, ppc)
  /\ cpc' = "stop_close"
  /\ stopLog' = Append(stopLog, "join_p")
  /\ UNCHANGED <<device, serial_port, is_running, receive_thread, processing_thread,
                 data_queue, track_points, map, saved, rpc, ppc, cur, script,
                 nstarted, nput, readLog, parseLog, trackSrc, startLog>>

\* lines 75-77
StopClose ==
  /\ cpc = "stop_close"
  /\ serial_port' = IF serial_port # "None" THEN "closed" ELSE serial_port
  /\ stopLog' = IF serial_port # "None" THEN Append(stopLog, "close") ELSE stopLog
  /\ cpc' = "stop_save"
  /\ UNCHANGED <<device, is_running, receive_thread, processing_thread, data_queue,
                 track_points, map, saved, rpc, ppc, cur, script, nstarted, nput,
                 readLog, parseLog, trackSrc, startLog>>

\* line 80: _save_map(), then stop_tracking returns
StopSave ==
  /\ cpc = "stop_save"
  /\ LET r == SaveMap(track_points, map, saved) IN
       /\ map' = r.map
       /\ saved' = r.saved
  /\ stopLog' = Append(stopLog, "finalize")
  /\ cpc' = "idle"
  /\ UNCHANGED <<device, serial_port, is_running, receive_thread, processing_thread,
                 data_queue, track_points, rpc, ppc, cur, script, nstarted, nput,
                 readLog, parseLog, trackSrc, startLog>>

\* ------------------------------------------------------------------ specification
Next ==
  \/ \E w \in Gens : ReaderLoop(w)
  \/ \E w \in Gens : ReaderIdle(w)
  \/ \E w \in Gens : ReaderRead(w)
  \/ \E w \in Gens : ReaderFault(w)
  \/ \E w \in Gens : ProcLoop(w)
  \/ \E w \in Gens : ProcGet(w)
  \/ \E w \in Gens : ProcEmpty(w)
  \/ \E w \in Gens : ProcParse(w)
  \/ StartOpenFails
  \/ StartOk
  \/ StopBegin
  \/ StopJoinReader
  \/ StopJoinProc
  \/ StopClose
  \/ StopSave

Spec == Init /\ [][Next]_vars

\* A caller that makes any MaxCalls calls of start_tracking and stop_tracking,
\* the first one start_tracking.
Calls == {"start", "stop"}
AnyScripts == {sc \in [1..MaxCalls -> Calls] : sc[1] = "start"}

InitAny ==
  /\ serial_port = "None"
  /\ is_running = FALSE
  /\ receive_thread = 0
  /\ processing_thread = 0
  /\ data_queue = <<>>
  /\ track_points = <<>>
  /\ map = [markers |-> <<>>, polylines |-> <<>>, location |-> <<0, 0>>]
  /\ saved = <<>>
  /\ rpc = [w \in Gens |-> "unborn"]
  /\ ppc = [w \in Gens |-> "unborn"]
  /\ cur = [w \in Gens |-> NoFrame]
  /\ cpc = "idle"
  /\ script \in AnyScripts
  /\ nstarted = 0
  /\ nput = 0
  /\ readLog = <<>>
  /\ parseLog = <<>>
  /\ trackSrc = <<>>
  /\ stopLog = <<>>
  /\ startLog = <<>>
  /\ device = MaxReadsAny

SpecAny == InitAny /\ [][Next]_vars

\* The threads are scheduled fairly and every blocking call times out
\* (readline after 1 s, queue.get after 1 s), so a worker that can take a step
\* takes one, and a stop_tracking under way goes on.  When the caller calls
\* stop_tracking is left open.
ReaderStep(w) == ReaderLoop(w) \/ ReaderIdle(w) \/ ReaderRead(w) \/ ReaderFault(w)
ProcStep(w) == ProcLoop(w) \/ ProcGet(w) \/ ProcEmpty(w) \/ ProcParse(w)
StopStep == StopJoinReader \/ StopJoinProc \/ StopClose \/ StopSave

Fairness ==
  /\ \A w \in Gens : WF_vars(ReaderStep(w)) /\ WF_vars(ProcStep(w))
  /\ WF_vars(StopStep)

\* main()'s run again, the device answering MaxReadsFair reads
InitFair ==
  /\ serial_port = "None"
  /\ is_running = FALSE
  /\ receive_thread = 0
  /\ processing_thread = 0
  /\ data_queue = <<>>
  /\ track_points = <<>>
  /\ map = [markers |-> <<>>, polylines |-> <<>>, location |-> <<0, 0>>]
  /\ saved = <<>>
  /\ rpc = [w \in Gens |-> "unborn"]
  /\ ppc = [w \in Gens |-> "unborn"]
  /\ cur = [w \in Gens |-> NoFrame]
  /\ cpc = "idle"
  /\ script = MainScript
  /\ nstarted = 0
  /\ nput = 0
  /\ readLog = <<>>
  /\ parseLog = <<>>
  /\ trackSrc = <<>>
  /\ stopLog = <<>>
  /\ startLog = <<>>
  /\ device = MaxReadsFair

FairSpec == InitFair /\ [][Next]_vars /\ Fairness

\* ------------------------------------------------------------------ claims
\* what the claims call an accepted frame: a recognized marker, a successful
\* decode, both coordinates exposed
Markers == {GNGGA, GNRMC}
HasMarker(text) == Len(text) >= 6 /\ SubSeq(text, 1, 6) \in Markers
Accepted(text) ==
  /\ HasMarker(text)
  /\ Decode(text).ok
  /\ {"latitude", "longitude"} \subseteq Decode(text).attrs
AcceptedFrame(f) == Accepted(f.text)
AcceptedLog == SelectSeq(parseLog, AcceptedFrame)
TrackCoords == [i \in 1..Len(track_points) |-> Coord(track_points[i])]
LastRead == readLog[Len(readLog)]
ReadHappens == Len(readLog') = Len(readLog) + 1

\* C1: the Track is append-only (every change adds exactly one Fix at the end)
\* and ordered by arrival: a Fix at a lower index comes from a frame that was
\* put on the queue earlier, and carries that frame's coordinates.
C1_TrackAppendOnlyFifo ==
  [][ /\ \/ track_points' = track_points
         \/ /\ Len(track_points') = Len(track_points) + 1
            /\ SubSeq(track_points', 1, Len(track_points)) = track_points
      /\ Len(trackSrc') = Len(track_points')
      /\ \A i, j \in 1..Len(trackSrc') : i < j => trackSrc'[i] < trackSrc'[j]
      /\ \A i \in 1..Len(trackSrc') :
           \E k \in 1..Len(parseLog') :
             /\ parseLog'[k].id = trackSrc'[i]
             /\ Decode(parseLog'[k].text).latitude = track_points'[i].latitude
             /\ Decode(parseLog'[k].text).longitude = track_points'[i].longitude
    ]_vars

C1_Witness ==
  /\ Len(track_points) = 3
  /\ track_points[1].latitude # track_points[2].latitude
  /\ nput > 3

C3_DecodeFailureDropped ==
  [][ /\ \A w \in Gens :
           (ppc[w] = "parse" /\ ppc'[w] # "parse"
              /\ HasMarker(cur[w].text) /\ ~Decode(cur[w].text).ok)
           => /\ track_points' = track_points
              /\ map' = map
              /\ is_running' = is_running
              /\ ppc'[w] = "loop"
      /\ \A w \in Gens :
           (ppc[w] = "loop" /\ ppc'[w] # "loop" /\ is_running) => ppc'[w] = "get"
      /\ trackSrc' = [i \in 1..Len(AcceptedLog') |-> AcceptedLog'[i].id]
    ]_vars

C3_Witness ==
  /\ Len(parseLog) = 3
  /\ Accepted(parseLog[1].text)
  /\ parseLog[2].text = SentBad
  /\ Accepted(parseLog[3].text)
  /\ Len(track_points) = 2
  /\ is_running

\* C4: a chunk that splits into k >= 1 frames at line terminators has exactly
\* those k frames put on the queue, each with its full text, in chunk order.
C4_EnqueuesEveryFrame ==
  [][ (ReadHappens /\ LastRead'.kind = "data" /\ Utf8Ok(LastRead'.bytes)
         /\ Len(SplitLines(Strip(LastRead'.bytes))) >= 1)
      => LET frames == SplitLines(Strip(LastRead'.bytes)) IN
           /\ Len(data_queue') = Len(data_queue) + Len(frames)
           /\ \A i \in 1..Len(frames) :
                data_queue'[Len(data_queue) + i].text = frames[i]
    ]_vars

\* C5: a chunk whose bytes cannot be decoded to text is discarded alone:
\* nothing is put on the queue for it and running keeps its value.
C5_UndecodableChunkOnlyDiscarded ==
  [][ (ReadHappens /\ LastRead'.kind = "data" /\ ~Utf8Ok(LastRead'.bytes))
      => /\ data_queue' = data_queue
         /\ is_running' = is_running
    ]_vars

\* C6: an I/O fault on a read sets running to false, puts nothing on the queue
\* and sends the Frame Reader to its loop test, from which it exits: a reader
\* that has faulted makes no further read attempt.
C6_FaultStopsReader ==
  [][ /\ (ReadHappens /\ LastRead'.kind = "fault")
         => /\ is_running' = FALSE
            /\ data_queue' = data_queue
            /\ rpc'[LastRead'.by] = "loop"
      /\ \A i \in 1..Len(readLog) :
           readLog[i].kind = "fault"
           => /\ \A k \in 1..Len(readLog') : k > i => readLog'[k].by # readLog[i].by
              /\ rpc'[readLog[i].by] \in {"loop", "done"}
    ]_vars

C6_Witness ==
  /\ Len(readLog) = 2
  /\ readLog[1].kind = "data"
  /\ readLog[2].kind = "fault"
  /\ rpc[readLog[2].by] = "done"
  /\ cpc = "idle" /\ script # <<>>

\* C7: once Track holds two or more fixes the document holds exactly one path
\* polyline, whose points are the coordinates of the whole Track in order.
C7_OnePolylineOverTrack ==
  Len(track_points) >= 2
  => /\ Len(map.polylines) = 1
     /\ map.polylines[1] = TrackCoords

\* C8: _save_map on an empty Track exports nothing and leaves the center; on a
\* non-empty Track it sets the center to the last Fix's coordinates and
\* exports exactly once, the exported document carrying that center.
C8_FinalizeCentersAndExports ==
  [][ (cpc = "stop_save" /\ cpc' # "stop_save")
      => IF track_points = <<>>
           THEN saved' = saved /\ map' = map
           ELSE /\ map'.location = Coord(track_points[Len(track_points)])
                /\ Len(saved') = Len(saved) + 1
                /\ SubSeq(saved', 1, Len(saved)) = saved
                /\ saved'[Len(saved')] = map'
                /\ map'.markers = map.markers /\ map'.polylines = map.polylines
    ]_vars

C8_Witness ==
  /\ Len(saved) = 1
  /\ Len(track_points) >= 2
  /\ Coord(track_points[1]) # Coord(track_points[Len(track_points)])
  /\ saved[1].location = Coord(track_points[Len(track_points)])

\* C9: stop_tracking clears running first, then waits for both workers, only
\* then closes the port, and only after that finalizes; while it runs and once
\* it has returned, running is false, a closed port means both workers have
\* exited, and an export means the port was closed before it.
StopOrder == <<"set", "join_r", "join_p", "close", "finalize">>
StopOrderNoPort == <<"set", "join_r", "join_p", "finalize">>
IsPrefix(s, t) == Len(s) <= Len(t) /\ SubSeq(t, 1, Len(s)) = s
WorkersExited ==
  \A w \in Gens : rpc[w] \in {"unborn", "done"} /\ ppc[w] \in {"unborn", "done"}
C9_StopOrder ==
  /\ IsPrefix(stopLog, StopOrder) \/ (IsPrefix(stopLog, StopOrderNoPort) /\ nstarted = 0)
  /\ stopLog # <<>> => ~is_running
  /\ cpc \in {"stop_join_p", "stop_close", "stop_save"}
       => \A w \in Gens : rpc[w] \in {"unborn", "done"}
  /\ cpc \in {"stop_close", "stop_save"} => WorkersExited
  /\ serial_port = "closed" => WorkersExited
  /\ saved # <<>> => serial_port = "closed"
  /\ (stopLog # <<>> /\ cpc = "idle") => WorkersExited /\ serial_port # "open"

C9_Witness ==
  /\ stopLog = StopOrder
  /\ cpc = "idle"
  /\ Len(parseLog) >= 1
  /\ data_queue # <<>>

\* C10: a start_tracking whose open fails reports the failure to its caller,
\* leaves running false and starts no worker; one whose open succeeds sets
\* running and starts one Frame Reader and one Fix Extractor.
C10_StartReportsOpenFailure ==
  \A i \in 1..Len(startLog) :
    IF startLog[i].opened
      THEN /\ startLog[i].spawned = i
           /\ rpc[i] # "unborn" /\ ppc[i] # "unborn"
      ELSE /\ startLog[i].raised \/ startLog[i].value # "None"
           /\ startLog[i].spawned = 0
           /\ ~is_running
           /\ WorkersExited

\* C11: once running is false both workers leave their loops, a stop_tracking
\* under way returns, and a Frame Reader fault by itself (no stop_tracking
\* needed) ends the Fix Extractor too.
ReaderFaulted == \E i \in 1..Len(readLog) : readLog[i].kind = "fault"
C11_ShutdownTerminates ==
  /\ (~is_running /\ nstarted > 0) ~> WorkersExited
  /\ (cpc # "idle") ~> (cpc = "idle" /\ WorkersExited)
  /\ ReaderFaulted ~> WorkersExited

C11_Witness ==
  /\ ReaderFaulted
  /\ nstarted = 1
  /\ ppc[1] = "done" /\ rpc[1] = "done"
  /\ Len(parseLog) >= 1
  /\ script = <<"stop">> /\ cpc = "idle"

\* C12: whatever calls of start_tracking and stop_tracking follow a first
\* start_tracking, at most one Frame Reader and at most one Fix Extractor are
\* live at any time.
LiveReaders == {w \in Gens : rpc[w] \in {"loop", "body"}}
LiveExtractors == {w \in Gens : ppc[w] \in {"loop", "get", "parse"}}
C12_OneWorkerOfEachKind ==
  Cardinality(LiveReaders) <= 1 /\ Cardinality(LiveExtractors) <= 1

\* C20: when stop_tracking reaches _save_map, every worker thread that was
\* ever started has exited, so nothing is appended to the Track or the
\* document while or after it is read and exported.
C20_FinalizeAfterAllWorkers == cpc = "stop_save" => WorkersExited

\* C13: a frame without a recognized marker is discarded without a call of
\* the decoder, and parsing it leaves the Track and the document unchanged.
ParseStepOf(w) == ppc[w] = "parse" /\ ppc'[w] # "parse"
C14_FixOnlyFromAccepted ==
  [][ /\ \A i \in 1..Len(track_points') :
           /\ i <= Len(trackSrc')
           /\ \E k \in 1..Len(parseLog') :
                /\ parseLog'[k].id = trackSrc'[i]
                /\ Accepted(parseLog'[k].text)
                /\ Coord(track_points'[i]) = Coord(Decode(parseLog'[k].text))
      /\ \A w \in Gens :
           (ParseStepOf(w) /\ HasMarker(cur[w].text) /\ Decode(cur[w].text).ok
              /\ ~({"latitude", "longitude"} \subseteq Decode(cur[w].text).attrs))
           => /\ track_points' = track_points
              /\ map' = map
              /\ ppc'[w] = "loop"
              /\ is_running' = is_running
    ]_vars

C14_Witness ==
  /\ Len(parseLog) = 3
  /\ Accepted(parseLog[1].text)
  /\ parseLog[2].text = SentNoPos
  /\ Accepted(parseLog[3].text)
  /\ Len(track_points) = 2
  /\ \E w \in Gens : ppc[w] = "get"

\* C15: append does not deduplicate: two equal fixes appended to an empty
\* Track give a Track of length 2 holding the fix twice, two markers and one
\* path of 2 identical points.
SameFixTwice ==
  /\ Len(AcceptedLog) = 2
  /\ AcceptedLog[1].text = AcceptedLog[2].text
C15_AppendKeepsDuplicates ==
  SameFixTwice
  => LET c == Coord(Decode(AcceptedLog[1].text)) IN
       /\ Len(track_points) = 2
       /\ track_points[1] = track_points[2]
       /\ Coord(track_points[1]) = c
       /\ Len(map.markers) = 2
       /\ map.markers[1] = map.markers[2]
       /\ map.markers[1].location = c
       /\ map.polylines = << <<c, c>> >>

C15_Witness ==
  /\ SameFixTwice
  /\ Len(parseLog) = 2
  /\ parseLog[1].text = SentRMC

\* C16: no step of the Fix Extractor changes running; running goes from false
\* to true only in start_tracking, and from true to false only in
\* stop_tracking or in the Frame Reader's exception handler.
ExtractorStep == \E w \in Gens : ppc[w] # "unborn" /\ ppc'[w] # ppc[w]
ReaderStepTaken == \E w \in Gens : rpc[w] # "unborn" /\ rpc'[w] # rpc[w]
ReaderHandlerRuns ==
  /\ ReadHappens
  /\ rpc[LastRead'.by] = "body"
  /\ LastRead'.kind = "fault" \/ ~Utf8Ok(LastRead'.bytes)
StartHappens == Len(startLog') = Len(startLog) + 1
StopBegins == cpc = "idle" /\ cpc' = "stop_join_r"
C16_RunningWriters ==
  [][ /\ ExtractorStep => is_running' = is_running
      /\ (~is_running /\ is_running') => StartHappens
      /\ (is_running /\ ~is_running') => StopBegins \/ ReaderHandlerRuns
    ]_vars

C16_Witness ==
  /\ ReaderFaulted
  /\ ~is_running
  /\ script = <<"stop">> /\ cpc = "idle"
  /\ ppc[1] = "get"
  /\ Len(track_points) >= 1

\* C17: every write to the Track or to the document (markers, polyline,
\* center) happens in a step of the Fix Extractor; the Frame Reader writes the
\* frame queue and nothing else, and no step of the controller writes the
\* Track or the document.
C17_OnlyExtractorWrites ==
  [][ /\ (track_points' # track_points \/ map' # map) => ExtractorStep
      /\ ReaderStepTaken
         => /\ is_running' = is_running
            /\ serial_port' = serial_port
            /\ track_points' = track_points /\ map' = map /\ saved' = saved
    ]_vars

\* C17 as amended: Track, markers and polylines are written by the Fix
\* Extractor's parse step only; the center is written only by _save_map,
\* which stop_tracking runs on the controller's thread; the Frame Reader
\* writes neither Track nor document, and besides the queue it writes only
\* running, in its exception handler.
C17_WritersOfTrackAndDocument ==
  [][ /\ (track_points' # track_points \/ map'.markers # map.markers
            \/ map'.polylines # map.polylines)
         => \E w \in Gens : ParseStepOf(w)
      /\ map'.location # map.location => (cpc = "stop_save" /\ cpc' = "idle")
      /\ saved' # saved => (cpc = "stop_save" /\ cpc' = "idle")
      /\ ReaderStepTaken
         => /\ serial_port' = serial_port
            /\ track_points' = track_points /\ map' = map /\ saved' = saved
            /\ is_running' # is_running => ReaderHandlerRuns
    ]_vars

C17_Witness ==
  /\ saved # <<>>
  /\ map.location # <<0, 0>>
  /\ ReaderFaulted
  /\ Len(map.polylines) >= 1

\* C18: the Frame Reader puts only complete frames on the queue: every item
\* is the full text of a line of the chunk read, and that chunk ended with a
\* line terminator (a line cut by the read timeout is not put in pieces).
C18_OnlyCompleteFrames ==
  [][ (ReadHappens /\ LastRead'.kind = "data"
         /\ Len(data_queue') > Len(data_queue))
      => LET bytes == LastRead'.bytes
             frames == SplitLines(Strip(bytes)) IN
           /\ bytes[Len(bytes)] \in LineBreaks
           /\ \A i \in Len(data_queue) + 1 .. Len(data_queue') :
                \E k \in 1..Len(frames) : data_queue'[i].text = frames[k]
    ]_vars

\* C19: no frame is lost at shutdown: when stop_tracking calls _save_map the
\* queue is empty, every frame put has been parsed and the Track holds every
\* accepted frame that was put.
C19_QueueDrainedAtFinalize ==
  cpc = "stop_save"
  => /\ data_queue = <<>>
     /\ Len(parseLog) = nput
     /\ Len(track_points) = Len(AcceptedLog)

\* C19 as amended: frames are taken in the order they were put, none skipped;
\* when stop_tracking calls _save_map every frame taken has been parsed, the
\* frames not taken are still on the queue, and the Track holds every
\* accepted frame that was taken.
C19_TakenFramesProcessed ==
  /\ \A k \in 1..Len(parseLog) : parseLog[k].id = k
  /\ cpc = "stop_save"
       => /\ \A w \in Gens : cur[w] = NoFrame
          /\ Len(parseLog) + Len(data_queue) = nput
          /\ \A i \in 1..Len(data_queue) : data_queue[i].id = Len(parseLog) + i
          /\ trackSrc = [i \in 1..Len(AcceptedLog) |-> AcceptedLog[i].id]

C19_Witness ==
  /\ cpc = "stop_save"
  /\ Len(data_queue) >= 1
  /\ Len(parseLog) >= 2
  /\ Len(track_points) >= 1
  /\ Accepted(data_queue[1].text)

====
